---- MODULE Spec2Model ----
(***************************************************************************)
(* File vault: content-addressed storage ledger (FileStorage / File),      *)
(* storage quota (StorageLimitService) and the upload / delete handlers of *)
(* FileViewSet, modelled as concurrent requests against one database and   *)
(* one S3 bucket.                                                          *)
(*                                                                         *)
(* Database model.  A statement outside transaction.atomic() reads the     *)
(* committed tables.  Inside transaction.atomic() every SELECT reads the   *)
(* committed tables at the moment it runs (READ COMMITTED, the Django      *)
(* default), and the writes of the block become visible together at        *)
(* commit.  A request's first write to a FileStorage row takes the row      *)
(* lock, and no statement after it reads the database, so the writes of a  *)
(* block and its commit are one step here; a request that would wait for   *)
(* a row lock simply takes that step after the holder's.  S3 calls are not *)
(* transactional: they take effect when they run.                          *)
(***************************************************************************)
EXTENDS Integers, FiniteSets, Sequences, Bags, TLC

\* ---- bounds ------------------------------------------------------------
MaxReq == 2          \* requests in flight at the same time
MaxUploads == 2      \* uploads that can commit over a run (one fresh uuid each)

MaxThreads == 2      \* threads calling one RateLimiterService at the same time
MaxCalls == 4        \* is_allowed calls per user over a run
MaxTime == 3         \* the clock stops after this many ticks

MaxBytes == 5        \* length of the longest upload stream that is hashed
MaxChunk == 2        \* bytes per chunk of file_obj.chunks(chunk_size=...)

Req == 1..MaxReq
Thread == 1..MaxThreads
Users == {"u1", "u2"}
Contents == {"a", "b", "c"}
\* two uploads whose digests have the same first 8 hex characters
PrefixContents == {"b", "d"}
AllContents == Contents \cup PrefixContents
Names == {"doc.txt"}

\* ---- program constants ---------------------------------------------------
\* int(os.environ.get("RATE_LIMIT_X_SECONDS", 1))
time_window == 1

\* time.time() is a float of seconds; the clock here steps in halves of one
TicksPerSecond == 2

\* the values of int(os.environ.get("RATE_LIMIT_N_CALLS", 2)) taken here: the
\* variable unset, and set to "0"
RATE_LIMIT_N_CALLS == {2, 0}

\* int(os.environ.get("TOTAL_STORAGE_LIMIT_Z_MB", 10))
limit_mb == 10

\* len(file_content) / file_obj.size of the uploads used here:
\* 7 MB, 3 MB and 3 MB + 1 byte; 2 MB for the upload of PrefixContents
Size(c) == CASE c = "a" -> 7 * 1024 * 1024
             [] c = "b" -> 3 * 1024 * 1024
             [] c = "d" -> 2 * 1024 * 1024
             [] OTHER   -> 3 * 1024 * 1024 + 1

\* hashlib.sha256(file_content).hexdigest(): equal bytes give equal digests,
\* different contents have different digests.  A digest is kept as its
\* first 8 hex characters and the remaining 56; the digests of "b" and "d"
\* differ in the remaining 56 only.
calculate_file_hash(c) == CASE c = "a" -> <<"0a0a0a0a", "a-rest">>
                            [] c = "b" -> <<"0b0b0b0b", "b-rest">>
                            [] c = "d" -> <<"0b0b0b0b", "d-rest">>
                            [] OTHER   -> <<"0c0c0c0c", "c-rest">>

\* f"files/{file_hash[:8]}/{file_obj.name}"
source_path(h, n) == <<"files", h[1], n>>

NoneStorage == [id |-> 0, file_hash |-> <<>>, s3_path |-> <<>>, size |-> 0,
                reference_count |-> 0]
NoneFile == [id |-> 0, storage |-> 0, user_id |-> "", is_duplicate |-> FALSE]

VARIABLES
  fileStorage,   \* table files_filestorage (committed rows)
  files,         \* table files_file (committed rows)
  s3,            \* objects of the bucket: set of [path, data]
  nextId,        \* source of fresh uuids
  pc,            \* per request: position in its handler
  arg,           \* per request: operation and inputs
  loc,           \* per request: local variables of the handler
  last,          \* the response sent by the step just taken, if any
  s3Puts,        \* history: upload_fileobj calls per user and content
                 \*   since the content's storage row was last purged
  ok201,         \* history: uploads answered 201, per content
  del204,        \* history: deletes answered 204, per content
  createRaced,   \* history: an upload was in flight together with a request
  sameTarget,    \* history: two deletes in flight held the same File row
  clock,         \* time.time(), in ticks
  max_calls,     \* RateLimiterService.max_calls
  user_requests, \* RateLimiterService.user_requests: per user a deque
  lock,          \* RateLimiterService.lock: the thread that holds it, or 0
  tpc,           \* per thread: position in the service method it runs
  targ,          \* per thread: method, user_id and local variables
  rlLast,        \* what the service call that just returned gave back
  allowedAt,     \* history: per user and timestamp, is_allowed calls allowed
  deniedCount,   \* history: per user, is_allowed calls denied
  logged,        \* history: per user, whether the two above are kept; they
                 \*   are dropped when clear_user_requests is called
  retry_after,   \* history: per user, whether an is_allowed call was denied
                 \*   since the last admission, and the reset_time that
                 \*   get_rate_limit_info reported after the denial
  quota,         \* a StorageLimitService called on its own: its limit_mb,
                 \*   the usage it finds, the size asked for, its answers
  stream         \* an uploaded file that is hashed on its own: its bytes,
                 \*   its position, the path that hashed it and the results

rlVars == <<clock, max_calls, user_requests, lock, tpc, targ, rlLast,
            allowedAt, deniedCount, logged, retry_after>>

pureVars == <<quota, stream>>

vars == <<fileStorage, files, s3, nextId, pc, arg, loc, last,
          s3Puts, ok201, del204, createRaced, sameTarget, rlVars, pureVars>>

dbVars == <<fileStorage, files>>
countVars == <<ok201, del204>>
raceVars == <<createRaced, sameTarget>>

\* ---- helpers ---------------------------------------------------------------
RECURSIVE SumSize(_)
SumSize(S) == IF S = {} THEN 0
              ELSE LET s == CHOOSE x \in S : TRUE
                   IN s.size + SumSize(S \ {s})

RECURSIVE BagSumSize(_)
BagSumSize(B) == IF DOMAIN B = {} THEN 0
                 ELSE LET s == CHOOSE x \in DOMAIN B : TRUE
                      IN s.size * B[s]
                         + BagSumSize([x \in DOMAIN B \ {s} |-> B[x]])

InFlight(r) == pc[r] # "idle"
Quiescent == \A r \in Req : ~InFlight(r)

NoArg == [op |-> "none", user |-> "", content |-> "", name |-> "",
          id |-> 0, target |-> 0]
NoLoc == [existing_storage |-> NoneStorage, instance |-> NoneFile,
          storage |-> NoneStorage, cascade |-> {}, s3ok |-> TRUE,
          total_storage_used |-> 0]
NoInfo == [remaining_calls |-> 0, reset_time |-> 0, limit |-> 0, window |-> 0]
NoResp == [op |-> "none", user |-> "", content |-> "", status |-> 0,
           error |-> "", current_usage_bytes |-> 0, limit_bytes |-> 0,
           attempted_upload_bytes |-> 0, request_id |-> "",
           rate_limit_info |-> NoInfo,
           total_storage_used |-> 0, original_storage_used |-> 0,
           storage_savings |-> 0, savings_percentage |-> 0]
Zero == [c \in AllContents |-> 0]
NoCall == [op |-> "none", user_id |-> "", current_time |-> 0,
           current_count |-> 0, phase |-> 0]
NoRetry == [denied |-> FALSE, reported |-> FALSE, reset_time |-> 0]
NoQuota == [limit_mb |-> 0, current_usage |-> 0, additional_size |-> 0,
            info |-> [current_usage_bytes |-> 0, limit_bytes |-> 0,
                      available_bytes |-> 0,
                      usage_percentage |-> [whole |-> 0, rest |-> 0,
                                            over |-> 1]],
            is_allowed |-> TRUE, message |-> "", done |-> {}]
NoStream == [data |-> <<>>, pos |-> 0, path |-> "none", file_content |-> <<>>,
             hashed |-> <<>>, file_hash |-> 0]
NoResult == [op |-> "none", user_id |-> "", current_time |-> 0,
             is_allowed |-> FALSE, message |-> "", request_id |-> "",
             count |-> 0, info |-> NoInfo]

\* the content with digest h
ContentOf(h) == CHOOSE c \in AllContents : calculate_file_hash(c) = h

\* the response of request r with a status and an error text
Status(r, code, msg) ==
  [NoResp EXCEPT !.op = arg[r].op, !.user = arg[r].user,
                 !.content = arg[r].content, !.status = code, !.error = msg,
                 !.request_id = "uuid4"]

\* the handler returns: the response goes out, the request is over
Return(r, response) ==
  /\ pc' = [pc EXCEPT ![r] = "idle"]
  /\ arg' = [arg EXCEPT ![r] = NoArg]
  /\ loc' = [loc EXCEPT ![r] = NoLoc]
  /\ last' = response

\* the handler goes on to position p with locals l
Goto(r, p, l) ==
  /\ pc' = [pc EXCEPT ![r] = p]
  /\ loc' = [loc EXCEPT ![r] = l]
  /\ last' = NoResp
  /\ UNCHANGED arg

\* ---- models.py ---------------------------------------------------------
\* File.find_existing_storage: FileStorage.objects.get(file_hash=...) or None
find_existing_storage(h) ==
  IF \E s \in fileStorage : s.file_hash = h
  THEN CHOOSE s \in fileStorage : s.file_hash = h
  ELSE NoneStorage

\* ---- storage_limit_service.py -------------------------------------------
limit_bytes == limit_mb * 1024 * 1024

\* FileStorage.objects.filter(files__user_id=user_id): the join of the two
\* tables, one result row per matching File, as a bag of FileStorage rows.
user_storage_join(u) ==
  LET rows == {s \in fileStorage :
                 \E f \in files : f.storage = s.id /\ f.user_id = u}
  IN [s \in rows |->
        Cardinality({f \in files : f.storage = s.id /\ f.user_id = u})]

\* the sum taken over the join itself, every File row counting
get_user_storage_usage_no_distinct(u) == BagSumSize(user_storage_join(u))

\* the sum without the filter on user_id: every row a File references
get_user_storage_usage_any_owner(u) ==
  SumSize({s \in fileStorage : \E f \in files : f.storage = s.id})

\* .distinct() and the sum over storage.size
get_user_storage_usage(u) == SumSize(BagToSet(user_storage_join(u)))

\* a float that is whole + rest / over, with 0 <= rest < over
Ratio(n, d) ==
  IF n % d = 0 THEN [whole |-> n \div d, rest |-> 0, over |-> 1]
  ELSE [whole |-> n \div d, rest |-> n % d, over |-> d]

\* the percentage left as it is, above 100 too
storage_quota_info_uncapped(lim_bytes, current_usage) ==
  [current_usage_bytes |-> current_usage,
   limit_bytes |-> lim_bytes,
   available_bytes |-> IF lim_bytes - current_usage > 0
                       THEN lim_bytes - current_usage ELSE 0,
   usage_percentage |-> IF lim_bytes > 0
                        THEN Ratio(current_usage * 100, lim_bytes)
                        ELSE Ratio(0, 1)]

\* get_storage_quota_info, lines 43-54, of a service whose limit_bytes is
\* lim_bytes and whose usage query gave current_usage
storage_quota_info(lim_bytes, current_usage) ==
  LET usage_percentage == IF lim_bytes > 0
                          THEN Ratio(current_usage * 100, lim_bytes)
                          ELSE Ratio(0, 1)
  IN [current_usage_bytes |-> current_usage,
      limit_bytes |-> lim_bytes,
      available_bytes |-> IF lim_bytes - current_usage > 0
                          THEN lim_bytes - current_usage ELSE 0,
      usage_percentage |-> IF usage_percentage.whole >= 100
                           THEN Ratio(100, 1) ELSE usage_percentage]

\* get_storage_quota_info(user_id) of the service the views use
get_storage_quota_info(u) ==
  storage_quota_info(limit_bytes, get_user_storage_usage(u))

\* check_storage_limit, lines 35-38, of a service whose limit_bytes is
\* lim_bytes and whose usage query gave current_usage
storage_limit_check(lim_bytes, current_usage, additional_size) ==
  IF current_usage + additional_size > lim_bytes
  THEN <<FALSE, "Storage Quota Exceeded">>
  ELSE <<TRUE, "">>

\* the comparison taken as >=, the limit itself refused
check_storage_limit_exclusive(u, additional_size) ==
  IF get_user_storage_usage(u) + additional_size >= limit_bytes
  THEN <<FALSE, "Storage Quota Exceeded">>
  ELSE <<TRUE, "">>

\* check_storage_limit: <<is_allowed, message>>
check_storage_limit(u, additional_size) ==
  storage_limit_check(limit_bytes, get_user_storage_usage(u), additional_size)

\* ---- rate_limiter_service.py ---------------------------------------------
\* time_window in ticks of the clock
Window == time_window * TicksPerSecond

\* RequestInfo(request_id=str(uuid.uuid4()), timestamp, user_id)
RequestInfo(current_time, u) ==
  [request_id |-> "uuid4", timestamp |-> current_time, user_id |-> u]

\* _clean_expired_requests: popleft while the head is time_window old or older
RECURSIVE clean_expired_requests(_, _)
clean_expired_requests(user_queue, current_time) ==
  IF user_queue # <<>> /\ current_time - Head(user_queue).timestamp >= Window
  THEN clean_expired_requests(Tail(user_queue), current_time)
  ELSE user_queue

\* the limit taken as exceeded only above max_calls
add_request_above_limit(user_queue, u, current_time, limit) ==
  LET q == clean_expired_requests(user_queue, current_time)
  IN IF Len(q) > limit THEN <<FALSE, q>>
     ELSE <<TRUE, Append(q, RequestInfo(current_time, u))>>

\* the queue taken as it is, expired entries included
add_request_no_purge(user_queue, u, current_time, limit) ==
  IF Len(user_queue) >= limit THEN <<FALSE, user_queue>>
  ELSE <<TRUE, Append(user_queue, RequestInfo(current_time, u))>>

\* a denial that leaves its own entry in the queue
add_request_denied_appends(user_queue, u, current_time, limit) ==
  LET q == clean_expired_requests(user_queue, current_time)
  IN <<Len(q) < limit, Append(q, RequestInfo(current_time, u))>>

\* add_request, the part under the lock: <<is_allowed, the queue after>>
add_request(user_queue, u, current_time, limit) ==
  LET q == clean_expired_requests(user_queue, current_time)
  IN IF Len(q) >= limit THEN <<FALSE, q>>
     ELSE <<TRUE, Append(q, RequestInfo(current_time, u))>>

\* is_allowed: the message that goes with add_request's answer
is_allowed_message(allowed) == IF allowed THEN "" ELSE "Call Limit Reached"

\* get_current_request_count, the part under the lock: <<count, queue after>>
get_current_request_count(user_queue, current_time) ==
  LET q == clean_expired_requests(user_queue, current_time)
  IN <<Len(q), q>>

\* get_rate_limit_info, the part under its own lock, given the count that
\* get_current_request_count returned before; int() truncates to seconds
get_rate_limit_info(user_queue, current_count, limit) ==
  [remaining_calls |-> IF limit - current_count > 0
                       THEN limit - current_count ELSE 0,
   reset_time |-> IF user_queue # <<>>
                  THEN (Head(user_queue).timestamp + Window) \div TicksPerSecond
                  ELSE 0,
   limit |-> limit,
   window |-> time_window]

\* ---- views.py: rate_limit_required ---------------------------------------
\* a denial that carries neither the request_id nor the rate-limit info
rate_limit_required_no_context(u) ==
  [is_allowed |-> add_request(<<>>, u, clock, max_calls)[1],
   message |-> is_allowed_message(add_request(<<>>, u, clock, max_calls)[1]),
   request_id |-> "",
   rate_limit_info |-> NoInfo]

\* FileViewSet.__init__ builds a RateLimiterService of its own, and the
\* framework builds one FileViewSet per request: the wrapper asks a limiter
\* whose queues are empty.  The result is what is_allowed gives and, for a
\* denial, get_rate_limit_info.
rate_limit_required(u) ==
  LET res == add_request(<<>>, u, clock, max_calls)
      cnt == get_current_request_count(res[2], clock)
  IN [is_allowed |-> res[1],
      message |-> is_allowed_message(res[1]),
      request_id |-> "uuid4",
      rate_limit_info |-> get_rate_limit_info(cnt[2], cnt[1], max_calls)]

\* ---- initial state -------------------------------------------------------
InitVault ==
  /\ fileStorage = {}
  /\ files = {}
  /\ s3 = {}
  /\ nextId = 1
  /\ pc = [r \in Req |-> "idle"]
  /\ arg = [r \in Req |-> NoArg]
  /\ loc = [r \in Req |-> NoLoc]
  /\ last = NoResp
  /\ s3Puts = [u \in Users |-> Zero]
  /\ ok201 = Zero
  /\ del204 = Zero
  /\ createRaced = FALSE
  /\ sameTarget = FALSE

InitLimiter ==
  /\ clock = 0
  /\ max_calls \in RATE_LIMIT_N_CALLS
  /\ user_requests = [u \in Users |-> <<>>]
  /\ lock = 0
  /\ tpc = [t \in Thread |-> "idle"]
  /\ targ = [t \in Thread |-> NoCall]
  /\ rlLast = NoResult
  /\ allowedAt = [u \in Users |-> [ts \in 0..MaxTime |-> 0]]
  /\ deniedCount = [u \in Users |-> 0]
  /\ retry_after = [u \in Users |-> NoRetry]

InitPure == quota = NoQuota /\ stream = NoStream

Init ==
  /\ InitVault /\ InitLimiter /\ InitPure
  /\ logged = [u \in Users |-> FALSE]

\* ---- history ---------------------------------------------------------------
\* The counters are kept for the runs in which no upload overlapped another
\* request; once one did they are cleared and stay so.
Count(counter, c) ==
  IF createRaced THEN Zero ELSE [counter EXCEPT ![c] = @ + 1]

\* ---- views.py: request entry ---------------------------------------------
\* A request of operation o enters its handler in the lowest free slot.
Enter(r, o) ==
  /\ ~InFlight(r)
  /\ \A q \in Req : q < r => InFlight(q)
  /\ createRaced' =
       (createRaced \/ \E q \in Req : InFlight(q) /\ "create" \in {o, arg[q].op})
  /\ IF createRaced' THEN ok201' = Zero /\ del204' = Zero
     ELSE UNCHANGED countVars

\* the wrapper's denial: 429 with the message, the request_id and the
\* rate-limit info; the wrapped method (operation o) is not called
RateLimited(r, u, o) ==
  /\ ~InFlight(r)
  /\ \A q \in Req : q < r => InFlight(q)
  /\ LET w == rate_limit_required(u)
     IN /\ ~w.is_allowed
        /\ last' = [NoResp EXCEPT !.op = o, !.user = u, !.status = 429,
                                  !.error = w.message,
                                  !.request_id = w.request_id,
                                  !.rate_limit_info = w.rate_limit_info]
  /\ UNCHANGED <<dbVars, s3, nextId, pc, arg, loc, s3Puts, countVars,
                 raceVars, rlVars, pureVars>>

\* ---- views.py: FileViewSet.create ----------------------------------------
\* the quota check run on every upload, found in the ledger or not
create_checks_quota_always(existing_storage) == TRUE

\* if not existing_storage: (the quota check is for new content only)
create_checks_quota(existing_storage) == existing_storage = NoneStorage

\* POST /files/ by user u with a file of content c named n:
\* file_content = file_obj.read(); file_hash = ...;
\* existing_storage = File.find_existing_storage(file_hash)
CreateFind(r, u, c, n) ==
  /\ rate_limit_required(u).is_allowed
  /\ nextId + Cardinality({q \in Req : arg[q].op = "create"}) <= MaxUploads
  /\ Enter(r, "create")
  /\ LET existing == find_existing_storage(calculate_file_hash(c))
     IN /\ pc' = [pc EXCEPT ![r] =
                    IF create_checks_quota(existing) THEN "c_quota"
                    ELSE "c_commit"]
        /\ loc' = [loc EXCEPT ![r] = [NoLoc EXCEPT !.existing_storage = existing]]
  /\ arg' = [arg EXCEPT ![r] = [op |-> "create", user |-> u, content |-> c,
                                name |-> n, id |-> 0, target |-> 0]]
  /\ last' = NoResp
  /\ UNCHANGED <<dbVars, s3, nextId, s3Puts, sameTarget, rlVars, pureVars>>

\* the 429 body without the usage and the attempted size
quota_exceeded_response_bare(r, error_message) ==
  [Status(r, 429, error_message) EXCEPT !.limit_bytes = limit_bytes]

\* the 429 of a refused upload: error_message, quota_info.current_usage_bytes,
\* quota_info.limit_bytes and file_obj.size
quota_exceeded_response(r, error_message) ==
  [Status(r, 429, error_message) EXCEPT
     !.current_usage_bytes =
        get_storage_quota_info(arg[r].user).current_usage_bytes,
     !.limit_bytes = get_storage_quota_info(arg[r].user).limit_bytes,
     !.attempted_upload_bytes = Size(arg[r].content)]

\* the storage row written before the upload is tried, and left behind
upload_failed_after_create(r) ==
  /\ Return(r, Status(r, 500, "Failed to upload to S3"))
  /\ fileStorage' = fileStorage \cup
       {[id |-> nextId, file_hash |-> calculate_file_hash(arg[r].content),
         s3_path |-> source_path(calculate_file_hash(arg[r].content),
                                 arg[r].name),
         size |-> Size(arg[r].content), reference_count |-> 1]}
  /\ UNCHANGED <<files, s3, s3Puts>>

\* lines 232-238: upload_fileobj raised; the handler returns 500 from inside
\* the atomic block before any row was written
upload_failed(r) ==
  /\ Return(r, Status(r, 500, "Failed to upload to S3"))
  /\ UNCHANGED <<dbVars, s3, s3Puts>>

\* if not existing_storage: check_storage_limit(user_id, file_obj.size); a
\* denial answers 429 with get_storage_quota_info's usage.  Otherwise, in
\* transaction.atomic(): file_service.upload_fileobj(...); an exception of
\* the upload answers 500 and nothing is written.  (The S3 call touches no
\* table, so it is taken in the step of the quota query.)
CreateUpload(r) ==
  /\ pc[r] = "c_quota"
  /\ LET u == arg[r].user
         c == arg[r].content
         sz == Size(c)
         chk == check_storage_limit(u, sz)
         path == source_path(calculate_file_hash(c), arg[r].name)
     IN IF ~chk[1]
        THEN /\ Return(r, quota_exceeded_response(r, chk[2]))
             /\ UNCHANGED <<dbVars, s3, s3Puts>>
        ELSE \E ok \in BOOLEAN :
               IF ok
               THEN /\ s3' = {o \in s3 : o.path # path}
                               \cup {[path |-> path, data |-> c]}
                    /\ s3Puts' = [s3Puts EXCEPT ![u][c] = @ + 1]
                    /\ Goto(r, "c_commit", loc[r])
                    /\ UNCHANGED dbVars
               ELSE upload_failed(r)
  /\ UNCHANGED <<nextId, countVars, raceVars, rlVars, pureVars>>

\* Model.save() of a loaded row: UPDATE ... WHERE id; when no row matched,
\* INSERT.  FileStorage.objects.create(): INSERT.  Both fail with
\* IntegrityError when another row holds the file_hash (unique=True).
\* The result is <<ok, table after the statement>>.
save_storage(table, row) ==
  IF \E s \in table : s.id = row.id
  THEN <<TRUE, {s \in table : s.id # row.id} \cup {row}>>
  ELSE IF \E s \in table : s.file_hash = row.file_hash
       THEN <<FALSE, table>>
       ELSE <<TRUE, table \cup {row}>>

\* the found row saved as it was read, its reference_count not incremented
create_storage_row_no_increment(r) ==
  LET existing == loc[r].existing_storage
      h == calculate_file_hash(arg[r].content)
  IN IF existing # NoneStorage
     THEN existing
     ELSE [id |-> nextId, file_hash |-> h,
           s3_path |-> source_path(h, arg[r].name),
           size |-> Size(arg[r].content), reference_count |-> 1]

\* the row that create() writes, or that save() rewrites (lines 220-243)
create_storage_row(r) ==
  LET existing == loc[r].existing_storage
      h == calculate_file_hash(arg[r].content)
  IN IF existing # NoneStorage
     THEN [existing EXCEPT !.reference_count = @ + 1]
     ELSE [id |-> nextId, file_hash |-> h,
           s3_path |-> source_path(h, arg[r].name),
           size |-> Size(arg[r].content), reference_count |-> 1]

\* is_duplicate = existing_storage is not None
create_is_duplicate(r) == loc[r].existing_storage # NoneStorage

\* the rest of the atomic block: existing_storage.save() or
\* FileStorage.objects.create(...), File.objects.create(...), commit, 201.
\* An IntegrityError rolls the block back and the request answers 500.
CreateCommit(r) ==
  /\ pc[r] = "c_commit"
  /\ LET row == create_storage_row(r)
         res == save_storage(fileStorage, row)
     IN IF res[1]
        THEN /\ fileStorage' = res[2]
             /\ files' = files \cup
                  {[id |-> nextId, storage |-> row.id,
                    user_id |-> arg[r].user,
                    is_duplicate |-> create_is_duplicate(r)]}
             /\ Return(r, Status(r, 201, ""))
             /\ ok201' = Count(ok201, arg[r].content)
             /\ nextId' = nextId + 1
        ELSE /\ Return(r, Status(r, 500, "IntegrityError"))
             /\ UNCHANGED <<dbVars, ok201, nextId>>
  /\ UNCHANGED <<s3, s3Puts, del204, raceVars, rlVars, pureVars>>

\* ---- views.py: FileViewSet.destroy ---------------------------------------
\* lines 268-281: what destroy answers when it does not go on.  get_object()
\* of a missing id raises Http404, which is no File.DoesNotExist: it leaves
\* destroy and the wrapper, and the framework answers 404 with its own body
\* {"detail": ...} and without the wrapper's X-Request-ID.  The File of
\* another user answers 404 {"error": "File not found"} through the wrapper.
destroy_not_found(u, instance) ==
  IF instance = NoneFile
  THEN [NoResp EXCEPT !.op = "destroy", !.user = u, !.status = 404,
                      !.error = "Not found.", !.request_id = ""]
  ELSE [NoResp EXCEPT !.op = "destroy", !.user = u, !.status = 404,
                      !.error = "File not found", !.request_id = "uuid4"]

\* DELETE /files/{fid}/ by user u: instance = self.get_object(), then the
\* check of the owner
DestroyGet(r, u, fid) ==
  /\ rate_limit_required(u).is_allowed
  /\ LET a == [op |-> "destroy", user |-> u, content |-> "", name |-> "",
               id |-> 0, target |-> fid]
         found == {f \in files : f.id = fid}
         instance == IF found = {} THEN NoneFile ELSE CHOOSE f \in found : TRUE
     IN IF instance = NoneFile \/ instance.user_id # u
        THEN /\ last' = destroy_not_found(u, instance)
             /\ ~InFlight(r)
             /\ \A q \in Req : q < r => InFlight(q)
             /\ UNCHANGED <<pc, arg, loc, countVars, raceVars>>
        ELSE /\ Enter(r, "destroy")
             /\ pc' = [pc EXCEPT ![r] = "d_begin"]
             /\ arg' = [arg EXCEPT ![r] = a]
             /\ loc' = [loc EXCEPT ![r] = [NoLoc EXCEPT !.instance = instance]]
             /\ last' = NoResp
             /\ sameTarget' =
                  (sameTarget \/ \E q \in Req : loc[q].instance.id = fid)
  /\ UNCHANGED <<dbVars, s3, nextId, s3Puts, rlVars, pureVars>>

\* the purge taken only below zero
destroy_purges_below_zero(storage) == storage.reference_count < 0

\* if storage.reference_count <= 0:
destroy_purges(storage) == storage.reference_count <= 0

\* with transaction.atomic(): storage = instance.storage (a SELECT by the
\* foreign key); instance.delete(); storage.reference_count -= 1.
\* The DELETE is part of the block's writes (DestroyCommit applies it).
DestroyBegin(r) ==
  /\ pc[r] = "d_begin"
  /\ LET rows == {s \in fileStorage : s.id = loc[r].instance.storage}
     IN IF rows = {}
        THEN Return(r, Status(r, 500, "FileStorage.DoesNotExist"))
        ELSE LET storage == CHOOSE s \in rows : TRUE
                 dec == [storage EXCEPT !.reference_count = @ - 1]
             IN Goto(r, IF destroy_purges(dec) THEN "d_purge" ELSE "d_commit",
                     [loc[r] EXCEPT !.storage = dec])
  /\ UNCHANGED <<dbVars, s3, nextId, s3Puts, countVars, raceVars, rlVars, pureVars>>

\* if storage.reference_count <= 0: file_service.delete_file(storage.s3_path),
\* an exception of which is printed and ignored; then storage.delete(), whose
\* first statement (on_delete=CASCADE) deletes the File rows that reference
\* the storage row and are committed at this moment.  (The S3 call touches
\* no table, so it is taken in the step of that statement.)
DestroyPurge(r) ==
  /\ pc[r] = "d_purge"
  /\ \E ok \in BOOLEAN :
       /\ s3' = IF ok THEN {o \in s3 : o.path # loc[r].storage.s3_path}
                ELSE s3
       /\ Goto(r, "d_commit",
               [loc[r] EXCEPT
                  !.s3ok = ok,
                  !.cascade = {f.id : f \in {g \in files :
                                 g.storage = loc[r].storage.id}}])
  /\ UNCHANGED <<dbVars, nextId, s3Puts, countVars, raceVars, rlVars, pureVars>>

\* an exception of delete_file that leaves the atomic block
delete_file_failure_raised(s3ok) == s3ok

\* lines 295-300: except Exception around delete_file prints a warning and
\* goes on, whether the S3 delete worked (s3ok) or not
delete_file_failure_ignored(s3ok) == TRUE

\* the rest of the atomic block and its commit: DELETE of the storage row,
\* or storage.save(); the File rows the block deleted go with it.  A File
\* row that still references a deleted storage row fails the foreign key at
\* commit; that and a failed save() roll the block back and answer 500.
DestroyCommit(r) ==
  /\ pc[r] = "d_commit"
  /\ LET storage == loc[r].storage
         c == ContentOf(storage.file_hash)
         gone == {loc[r].instance.id} \cup loc[r].cascade
         left == {f \in files : f.id \notin gone}
         saved == save_storage(fileStorage, storage)
         ok == IF destroy_purges(storage)
               THEN /\ delete_file_failure_ignored(loc[r].s3ok)
                    /\ \A f \in left : f.storage # storage.id
               ELSE saved[1]
     IN IF ok
        THEN /\ files' = left
             /\ fileStorage' =
                  IF destroy_purges(storage)
                  THEN {s \in fileStorage : s.id # storage.id}
                  ELSE saved[2]
             /\ s3Puts' = IF destroy_purges(storage)
                          THEN [v \in Users |-> [s3Puts[v] EXCEPT ![c] = 0]]
                          ELSE s3Puts
             /\ del204' = Count(del204, c)
             /\ Return(r, Status(r, 204, ""))
        ELSE /\ Return(r, Status(r, 500, "IntegrityError"))
             /\ UNCHANGED <<dbVars, s3Puts, del204>>
  /\ UNCHANGED <<s3, nextId, ok201, raceVars, rlVars, pureVars>>

\* ---- views.py: user_storage_stats ---------------------------------------
\* sum(file.storage.size for file in user_files): one query joining the
\* user's File rows with their FileStorage rows, one term per File row
original_storage_used(u) == BagSumSize(user_storage_join(u))

\* round(savings / original * 100, 1) in tenths of a percent, 0.0 when
\* original is 0; the quotient is taken digit by digit and ties go to the
\* even tenth
savings_percentage(savings, original) ==
  IF original > 0
  THEN LET d0 == savings \div original
           r0 == savings % original
           d1 == (r0 * 10) \div original
           r1 == (r0 * 10) % original
           d2 == (r1 * 10) \div original
           r2 == (r1 * 10) % original
           d3 == (r2 * 10) \div original
           r3 == (r2 * 10) % original
           tenths == d0 * 1000 + d1 * 100 + d2 * 10 + d3
       IN IF 2 * r3 > original \/ (2 * r3 = original /\ tenths % 2 = 1)
          THEN tenths + 1
          ELSE tenths
  ELSE 0

\* the body of the 200 answer: storage_savings is original - total
storage_stats_response(r, total, original) ==
  [Status(r, 200, "") EXCEPT
     !.total_storage_used = total,
     !.original_storage_used = original,
     !.storage_savings = original - total,
     !.savings_percentage = savings_percentage(original - total, original)]

\* GET storage_stats, first query: the wrapper admits the call and
\* get_user_storage_usage sums the distinct FileStorage rows of the user
UserStorageStats(r, u) ==
  /\ rate_limit_required(u).is_allowed
  /\ ~InFlight(r)
  /\ \A q \in Req : q < r => InFlight(q)
  /\ pc' = [pc EXCEPT ![r] = "s_original"]
  /\ arg' = [arg EXCEPT ![r] = [NoArg EXCEPT !.op = "storage_stats",
                                             !.user = u]]
  /\ loc' = [loc EXCEPT ![r] =
               [NoLoc EXCEPT !.total_storage_used = get_user_storage_usage(u)]]
  /\ last' = NoResp
  /\ UNCHANGED <<dbVars, s3, nextId, s3Puts, countVars, raceVars, rlVars,
                 pureVars>>

\* second query: the lazy user_files queryset is evaluated by the sum, then
\* the handler answers 200 with both totals and their difference
UserStorageStatsOriginal(r) ==
  /\ pc[r] = "s_original"
  /\ Return(r, storage_stats_response(r, loc[r].total_storage_used,
                                      original_storage_used(arg[r].user)))
  /\ UNCHANGED <<dbVars, s3, nextId, s3Puts, countVars, raceVars, rlVars,
                 pureVars>>

\* ---- specification -------------------------------------------------------
Next ==
  \/ \E r \in Req, u \in Users, o \in {"create", "destroy", "storage_stats"} :
       RateLimited(r, u, o)
  \/ \E r \in Req, u \in Users, c \in Contents, n \in Names :
       CreateFind(r, u, c, n)
  \/ \E r \in Req : CreateUpload(r)
  \/ \E r \in Req : CreateCommit(r)
  \/ \E r \in Req, u \in Users, fid \in 1..MaxUploads : DestroyGet(r, u, fid)
  \/ \E r \in Req : DestroyBegin(r)
  \/ \E r \in Req : DestroyPurge(r)
  \/ \E r \in Req : DestroyCommit(r)
  \/ \E r \in Req, u \in Users : UserStorageStats(r, u)
  \/ \E r \in Req : UserStorageStatsOriginal(r)

Spec == Init /\ [][Next]_vars

\* the same requests, the uploads being those of PrefixContents
NextPrefix ==
  \/ \E r \in Req, u \in Users, o \in {"create", "destroy", "storage_stats"} :
       RateLimited(r, u, o)
  \/ \E r \in Req, u \in Users, c \in PrefixContents, n \in Names :
       CreateFind(r, u, c, n)
  \/ \E r \in Req : CreateUpload(r)
  \/ \E r \in Req : CreateCommit(r)
  \/ \E r \in Req, u \in Users, fid \in 1..MaxUploads : DestroyGet(r, u, fid)
  \/ \E r \in Req : DestroyBegin(r)
  \/ \E r \in Req : DestroyPurge(r)
  \/ \E r \in Req : DestroyCommit(r)
  \/ \E r \in Req, u \in Users : UserStorageStats(r, u)
  \/ \E r \in Req : UserStorageStatsOriginal(r)

SpecPrefix == Init /\ [][NextPrefix]_vars

\* ---- views.py: destroy, a request that dies inside its atomic block -----
\* the answer a client has of a request whose process died
Crashed(r) ==
  [NoResp EXCEPT !.op = arg[r].op, !.user = arg[r].user, !.error = "crashed"]

\* a death that leaves the DELETE of the File row behind
destroy_crash_keeps_delete(r) ==
  /\ files' = {f \in files : f.id # loc[r].instance.id}
  /\ UNCHANGED fileStorage

\* with transaction.atomic(): nothing of a block that did not reach its end
\* is committed
destroy_rollback(r) == UNCHANGED dbVars

\* the process dies between instance.delete() and the end of the atomic
\* block: the block's writes are rolled back, an S3 delete already made stays
DestroyCrash(r) ==
  /\ pc[r] \in {"d_purge", "d_commit"}
  /\ destroy_rollback(r)
  /\ Return(r, Crashed(r))
  /\ UNCHANGED <<s3, nextId, s3Puts, countVars, raceVars, rlVars, pureVars>>

NextCrash ==
  \/ Next
  \/ \E r \in Req : DestroyCrash(r)

SpecCrash == Init /\ [][NextCrash]_vars

\* ---- views.py: the wrapper's check of the UserId header -----------------
\* request.headers.get("UserId"): None when the header is missing, else its
\* characters
NoHeader == <<"None">>
Headers == {NoHeader, <<>>, <<" ">>, <<" ", " ">>, <<"u">>, <<" ", "u", " ">>}

\* str.strip(): the characters without the blanks at both ends
RECURSIVE strip(_)
strip(h) ==
  IF h = <<>> THEN h
  ELSE IF Head(h) = " " THEN strip(Tail(h))
  ELSE IF h[Len(h)] = " " THEN strip(SubSeq(h, 1, Len(h) - 1))
  ELSE h

\* _get_user_id: None for a missing, empty or blank header, else the
\* stripped value
get_user_id(h) ==
  IF h = NoHeader \/ h = <<>> \/ strip(h) = <<>> THEN NoHeader ELSE strip(h)

\* a wrapper that asks the rate limiter first, with whatever _get_user_id
\* gave, and looks at the header after that
user_id_required_after_limiter(o) ==
  LET w == rate_limit_required("")
  IN IF w.is_allowed
     THEN [NoResp EXCEPT !.op = o, !.status = 400,
                         !.error = "UserId header is required"]
     ELSE [NoResp EXCEPT !.op = o, !.status = 429, !.error = w.message,
                         !.request_id = w.request_id,
                         !.rate_limit_info = w.rate_limit_info]

\* if not user_id: the 400 of the wrapper, returned before is_allowed is
\* called; it carries no request_id
user_id_required(o) ==
  [NoResp EXCEPT !.op = o, !.status = 400,
                 !.error = "UserId header is required"]

\* a request for operation o whose UserId header h is missing or blank: the
\* wrapper answers 400, the wrapped method is not called
UserIdRequired(r, h, o) ==
  /\ get_user_id(h) = NoHeader
  /\ ~InFlight(r)
  /\ \A q \in Req : q < r => InFlight(q)
  /\ last' = user_id_required(o)
  /\ UNCHANGED <<dbVars, s3, nextId, pc, arg, loc, s3Puts, countVars,
                 raceVars, rlVars, pureVars>>

NextHeader ==
  \/ Next
  \/ \E r \in Req, h \in Headers, o \in {"create", "destroy"} :
       UserIdRequired(r, h, o)

SpecHeader == Init /\ [][NextHeader]_vars

\* ---- rate_limiter_service.py: threads calling one RateLimiterService ------
fvVars == <<fileStorage, files, s3, nextId, pc, arg, loc, last,
            s3Puts, ok201, del204, createRaced, sameTarget>>

Methods == {"is_allowed", "get_current_request_count", "get_rate_limit_info",
            "clear_user_requests"}

\* is_allowed calls of user u so far, those in flight included
IsAllowedCalls(u) ==
  LET RECURSIVE Sum(_)
      Sum(n) == IF n < 0 THEN 0 ELSE allowedAt[u][n] + Sum(n - 1)
  IN Sum(MaxTime) + deniedCount[u]
     + Cardinality({t \in Thread : targ[t].op = "is_allowed"
                                   /\ targ[t].user_id = u})

\* the history of user u after an is_allowed call stamped current_time
Logged(u, current_time, allowed) ==
  /\ allowedAt' = IF allowed /\ logged[u]
                  THEN [allowedAt EXCEPT ![u][current_time] = @ + 1]
                  ELSE allowedAt
  /\ deniedCount' = IF ~allowed /\ logged[u]
                    THEN [deniedCount EXCEPT ![u] = @ + 1]
                    ELSE deniedCount
  /\ retry_after' = IF ~logged[u] THEN retry_after
                    ELSE IF allowed THEN [retry_after EXCEPT ![u] = NoRetry]
                    ELSE [retry_after EXCEPT ![u].denied = TRUE]

\* A thread enters a method for user u.  add_request and
\* get_current_request_count read current_time = time.time() first, before
\* they ask for the lock; clear_user_requests reads no clock.
Call(t, u, m) ==
  /\ tpc[t] = "idle"
  /\ \A q \in Thread : q < t => tpc[q] # "idle"
  /\ m = "is_allowed" => ~logged[u] \/ IsAllowedCalls(u) < MaxCalls
  /\ tpc' = [tpc EXCEPT ![t] = "want"]
  /\ targ' = [targ EXCEPT ![t] =
                [op |-> m, user_id |-> u,
                 current_time |-> IF m = "clear_user_requests" THEN 0 ELSE clock,
                 current_count |-> 0, phase |-> 1]]
  /\ rlLast' = NoResult
  /\ UNCHANGED <<fvVars, pureVars, clock, max_calls, user_requests, lock,
                 allowedAt, deniedCount, logged, retry_after>>

\* with self.lock: the one Lock of the service, whatever the user
Acquire(t) ==
  /\ tpc[t] = "want"
  /\ lock = 0
  /\ lock' = t
  /\ tpc' = [tpc EXCEPT ![t] = "in"]
  /\ rlLast' = NoResult
  /\ UNCHANGED <<fvVars, pureVars, clock, max_calls, user_requests, targ,
                 allowedAt, deniedCount, logged, retry_after>>

\* the method returns result; the lock is free again
Release(t, result) ==
  /\ lock' = 0
  /\ tpc' = [tpc EXCEPT ![t] = "idle"]
  /\ targ' = [targ EXCEPT ![t] = NoCall]
  /\ rlLast' = [result EXCEPT !.op = targ[t].op, !.user_id = targ[t].user_id,
                              !.current_time = targ[t].current_time]

\* is_allowed -> add_request, lines 54-65, and the message of is_allowed
AddRequest(t) ==
  /\ tpc[t] = "in" /\ targ[t].op = "is_allowed"
  /\ LET u == targ[t].user_id
         res == add_request(user_requests[u], u, targ[t].current_time, max_calls)
     IN /\ user_requests' = [user_requests EXCEPT ![u] = res[2]]
        /\ Release(t, [NoResult EXCEPT !.is_allowed = res[1],
                                       !.message = is_allowed_message(res[1]),
                                       !.request_id = "uuid4"])
        /\ Logged(u, targ[t].current_time, res[1])
  /\ UNCHANGED <<fvVars, pureVars, clock, max_calls, logged>>

\* get_current_request_count, lines 71-73, called for itself or as the first
\* statement of get_rate_limit_info, which then asks for the lock once more
GetCurrentRequestCount(t) ==
  /\ tpc[t] = "in"
  /\ \/ targ[t].op = "get_current_request_count"
     \/ targ[t].op = "get_rate_limit_info" /\ targ[t].phase = 1
  /\ LET u == targ[t].user_id
         cnt == get_current_request_count(user_requests[u], targ[t].current_time)
     IN /\ user_requests' = [user_requests EXCEPT ![u] = cnt[2]]
        /\ IF targ[t].op = "get_current_request_count"
           THEN Release(t, [NoResult EXCEPT !.count = cnt[1]])
           ELSE /\ lock' = 0
                /\ tpc' = [tpc EXCEPT ![t] = "want"]
                /\ targ' = [targ EXCEPT ![t].phase = 2,
                                        ![t].current_count = cnt[1]]
                /\ rlLast' = NoResult
  /\ UNCHANGED <<fvVars, pureVars, clock, max_calls, allowedAt, deniedCount, logged,
                 retry_after>>

\* get_rate_limit_info, lines 33-41
GetRateLimitInfo(t) ==
  /\ tpc[t] = "in"
  /\ targ[t].op = "get_rate_limit_info" /\ targ[t].phase = 2
  /\ LET u == targ[t].user_id
     IN /\ Release(t, [NoResult EXCEPT
                      !.count = targ[t].current_count,
                      !.info = get_rate_limit_info(user_requests[u],
                                                   targ[t].current_count,
                                                   max_calls)])
        /\ retry_after' =
             IF logged[u] /\ retry_after[u].denied /\ ~retry_after[u].reported
             THEN [retry_after EXCEPT ![u].reported = TRUE,
                     ![u].reset_time =
                        get_rate_limit_info(user_requests[u],
                                            targ[t].current_count,
                                            max_calls).reset_time]
             ELSE retry_after
  /\ UNCHANGED <<fvVars, pureVars, clock, max_calls, user_requests,
                 allowedAt, deniedCount, logged>>

\* a clear that empties the queue of every user
clear_all_requests(t) ==
  /\ tpc[t] = "in" /\ targ[t].op = "clear_user_requests"
  /\ user_requests' = [u \in Users |-> <<>>]
  /\ logged' = [logged EXCEPT ![targ[t].user_id] = FALSE]
  /\ allowedAt' = [allowedAt EXCEPT ![targ[t].user_id] = [ts \in 0..MaxTime |-> 0]]
  /\ deniedCount' = [deniedCount EXCEPT ![targ[t].user_id] = 0]
  /\ retry_after' = [retry_after EXCEPT ![targ[t].user_id] = NoRetry]
  /\ Release(t, NoResult)
  /\ UNCHANGED <<fvVars, pureVars, clock, max_calls>>

\* clear_user_requests, lines 77-79; the history of the user ends here
ClearUserRequests(t) ==
  /\ tpc[t] = "in" /\ targ[t].op = "clear_user_requests"
  /\ LET u == targ[t].user_id
     IN /\ user_requests' = [user_requests EXCEPT ![u] = <<>>]
        /\ logged' = [logged EXCEPT ![u] = FALSE]
        /\ allowedAt' = [allowedAt EXCEPT ![u] = [ts \in 0..MaxTime |-> 0]]
        /\ deniedCount' = [deniedCount EXCEPT ![u] = 0]
        /\ retry_after' = [retry_after EXCEPT ![u] = NoRetry]
        /\ Release(t, NoResult)
  /\ UNCHANGED <<fvVars, pureVars, clock, max_calls>>

\* time passes
Tick ==
  /\ clock < MaxTime
  /\ clock' = clock + 1
  /\ rlLast' = NoResult
  /\ UNCHANGED <<fvVars, pureVars, max_calls, user_requests, lock, tpc, targ,
                 allowedAt, deniedCount, logged, retry_after>>

\* the user whose calls the history follows
OneUser == {"u1"}

\* one service, all calls for one user, the history kept
InitRL ==
  /\ InitVault /\ InitLimiter /\ InitPure
  /\ logged = [u \in Users |-> u \in OneUser]

NextRL ==
  \/ \E t \in Thread, u \in OneUser, m \in Methods : Call(t, u, m)
  \/ \E t \in Thread : Acquire(t)
  \/ \E t \in Thread : AddRequest(t)
  \/ \E t \in Thread : GetCurrentRequestCount(t)
  \/ \E t \in Thread : GetRateLimitInfo(t)
  \/ \E t \in Thread : ClearUserRequests(t)
  \/ Tick

SpecRL == InitRL /\ [][NextRL]_vars

\* one service, calls for every user, no history
NextUsers ==
  \/ \E t \in Thread, u \in Users, m \in Methods : Call(t, u, m)
  \/ \E t \in Thread : Acquire(t)
  \/ \E t \in Thread : AddRequest(t)
  \/ \E t \in Thread : GetCurrentRequestCount(t)
  \/ \E t \in Thread : GetRateLimitInfo(t)
  \/ \E t \in Thread : ClearUserRequests(t)
  \/ Tick

SpecUsers == Init /\ [][NextUsers]_vars

\* ---- storage_limit_service.py: a StorageLimitService called on its own ----
\* TOTAL_STORAGE_LIMIT_Z_MB, the usage found and the size asked for
QuotaLimitsMb == {0, 1, 10}
QuotaUsages == {0, 1, 524288, 1048576, 1048577, 10485760, 10485761}
QuotaSizes == {1, 3145728}

InitQuota ==
  /\ InitVault /\ InitLimiter
  /\ logged = [u \in Users |-> FALSE]
  /\ \E l \in QuotaLimitsMb, g \in QuotaUsages, a \in QuotaSizes :
       quota = [NoQuota EXCEPT !.limit_mb = l, !.current_usage = g,
                               !.additional_size = a]
  /\ stream = NoStream

\* get_storage_quota_info
GetStorageQuotaInfo ==
  /\ "get_storage_quota_info" \notin quota.done
  /\ quota' = [quota EXCEPT
                 !.info = storage_quota_info(quota.limit_mb * 1024 * 1024,
                                             quota.current_usage),
                 !.done = @ \cup {"get_storage_quota_info"}]
  /\ UNCHANGED <<fvVars, rlVars, stream>>

\* check_storage_limit
CheckStorageLimit ==
  /\ "check_storage_limit" \notin quota.done
  /\ LET res == storage_limit_check(quota.limit_mb * 1024 * 1024,
                                    quota.current_usage,
                                    quota.additional_size)
     IN quota' = [quota EXCEPT !.is_allowed = res[1], !.message = res[2],
                               !.done = @ \cup {"check_storage_limit"}]
  /\ UNCHANGED <<fvVars, rlVars, stream>>

NextQuota == GetStorageQuotaInfo \/ CheckStorageLimit

SpecQuota == InitQuota /\ [][NextQuota]_vars

\* ---- the upload paths that hash the uploaded file -----------------------
Bytes == {0, 1}
ByteSeqs == UNION {[1..n -> Bytes] : n \in 0..MaxBytes}

\* file_obj.read(n): the bytes from the position on, at most n of them (all
\* of them for n < 0), and the position after them
read(f, n) ==
  LET end == IF n < 0 \/ f.pos + n > Len(f.data) THEN Len(f.data)
             ELSE f.pos + n
  IN [bytes |-> SubSeq(f.data, f.pos + 1, end), pos |-> end]

\* file_obj.seek(0)
seek0(f) == [f EXCEPT !.pos = 0]

\* hash_obj.update(chunk): the digest state absorbs the bytes in order.  The
\* state is a number that differs for any two byte sequences absorbed.
RECURSIVE sha256_update(_, _)
sha256_update(h, chunk) ==
  IF chunk = <<>> THEN h
  ELSE sha256_update(h * 3 + Head(chunk) + 1, Tail(chunk))

\* hashlib.sha256(file_content).hexdigest()
sha256(file_content) == sha256_update(0, file_content)

\* for chunk in file_obj.chunks(chunk_size): hash_obj.update(chunk), after
\* chunks() has put the file at its start; read(chunk_size) until it gives
\* nothing.  fed are the bytes that were absorbed.
RECURSIVE update_with_chunks(_, _, _)
update_with_chunks(f, h, fed) ==
  LET got == read(f, MaxChunk)
  IN IF got.bytes = <<>>
     THEN [f |-> [f EXCEPT !.pos = got.pos], h |-> h, fed |-> fed]
     ELSE update_with_chunks([f EXCEPT !.pos = got.pos],
                             sha256_update(h, got.bytes), fed \o got.bytes)

\* backend/src/files/utils.py: calculate_file_hash(file_obj)
UtilsCalculateFileHash ==
  /\ stream.path = "none"
  /\ LET res == update_with_chunks(seek0(stream), 0, <<>>)
     IN stream' = [seek0(res.f) EXCEPT !.path = "utils",
                                       !.hashed = res.fed,
                                       !.file_hash = res.h]
  /\ UNCHANGED <<fvVars, rlVars, quota>>

\* files/views.py: _process_file_content(file_obj)
ProcessFileContent ==
  /\ stream.path = "none"
  /\ LET got == read(stream, -1)
     IN stream' = [seek0([stream EXCEPT !.pos = got.pos]) EXCEPT
                     !.path = "_process_file_content",
                     !.file_content = got.bytes,
                     !.hashed = got.bytes,
                     !.file_hash = sha256(got.bytes)]
  /\ UNCHANGED <<fvVars, rlVars, quota>>

\* src/files/views.py: create, its read of the upload and its hash; the
\* position stays where read() left it
CreateReadAndHash ==
  /\ stream.path = "none"
  /\ LET got == read(stream, -1)
     IN stream' = [stream EXCEPT !.pos = got.pos,
                                 !.path = "create",
                                 !.file_content = got.bytes,
                                 !.hashed = got.bytes,
                                 !.file_hash = sha256(got.bytes)]
  /\ UNCHANGED <<fvVars, rlVars, quota>>

\* an upload arrives: its bytes, at position 0
InitHash ==
  /\ InitVault /\ InitLimiter
  /\ logged = [u \in Users |-> FALSE]
  /\ quota = NoQuota
  /\ \E d \in ByteSeqs : stream = [NoStream EXCEPT !.data = d]

NextHash == UtilsCalculateFileHash \/ ProcessFileContent \/ CreateReadAndHash

SpecHash == InitHash /\ [][NextHash]_vars

\* ---- properties ---------------------------------------------------------
FilesOf(s) == {f \in files : f.storage = s.id}
RowsOf(c) == {s \in fileStorage : s.file_hash = calculate_file_hash(c)}

\* C1: in every committed state each FileStorage row's reference_count is
\* the number of File rows that reference it.
C1_RefCountIsFileCount ==
  \A s \in fileStorage : s.reference_count = Cardinality(FilesOf(s))

\* C2: uploads of one content that ran one after the other, none overlapping
\* another request and none of its files deleted: after N of them were
\* answered 201 there is one FileStorage row with reference_count N and N
\* File rows, of which exactly the first has is_duplicate false.
C2_SequentialUploads ==
  ~createRaced =>
    \A c \in Contents :
      del204[c] = 0 =>
        LET N == ok201[c]
            fs == {f \in files : \E s \in RowsOf(c) : f.storage = s.id}
            originals == {f \in fs : ~f.is_duplicate}
        IN IF N = 0 THEN RowsOf(c) = {} /\ fs = {}
           ELSE /\ Cardinality(RowsOf(c)) = 1
                /\ \A s \in RowsOf(c) : s.reference_count = N
                /\ Cardinality(fs) = N
                /\ Cardinality(originals) = 1
                /\ \A f \in originals : \A g \in fs : f.id <= g.id

\* one owner has uploaded one content twice in a row
C2_Witness ==
  /\ ~createRaced /\ Quiescent
  /\ \E c \in Contents, u \in Users :
       /\ ok201[c] >= 2 /\ del204[c] = 0
       /\ Cardinality({f \in files : f.user_id = u /\ f.is_duplicate}) >= 1
       /\ \A f \in files : f.user_id = u

\* C3: uploads of one owner that each found the content absent from the
\* ledger and each wrote its bytes to the bucket are all answered 201 (none
\* is answered with an IntegrityError after the bytes were written twice).
C3_ConcurrentUploadsAllSucceed ==
  ~(/\ last.op = "create" /\ last.status = 500
    /\ last.error = "IntegrityError"
    /\ s3Puts[last.user][last.content] >= 2)

\* C4: deletes of distinct File rows, no upload overlapping a request: when
\* all have returned, a content with N uploads answered 201 and M < N deletes
\* answered 204 has reference_count N - M, with M = N its row is gone, and no
\* reference_count is negative.
C4_ConcurrentDeletes ==
  /\ \A s \in fileStorage : s.reference_count >= 0
  /\ (Quiescent /\ ~createRaced /\ ~sameTarget) =>
       \A c \in Contents :
         IF del204[c] < ok201[c]
         THEN /\ RowsOf(c) # {}
              /\ \A s \in RowsOf(c) : s.reference_count = ok201[c] - del204[c]
         ELSE RowsOf(c) = {}

\* C5: a delete of a File row that is answered 204 lowers the committed
\* reference_count of the row's storage by exactly 1: the storage row stays,
\* with its bytes untouched, iff the new count is >= 1, and is removed
\* otherwise; the S3 delete of a purge, when it succeeds, removes the bytes.
C5_DeleteDecrementsByOne ==
  [][\A r \in Req :
       /\ (pc[r] = "d_purge" /\ pc'[r] = "d_commit" /\ loc'[r].s3ok) =>
            ~\E o \in s3' : o.path = loc[r].storage.s3_path
       /\ (/\ pc[r] = "d_commit" /\ pc'[r] = "idle" /\ last'.status = 204
           /\ \E f \in files : f.id = loc[r].instance.id) =>
            LET before == {s \in fileStorage : s.id = loc[r].storage.id}
                after == {s \in fileStorage' : s.id = loc[r].storage.id}
            IN /\ before # {}
               /\ \A b \in before :
                    IF b.reference_count - 1 >= 1
                    THEN /\ after = {[b EXCEPT !.reference_count = @ - 1]}
                         /\ loc[r].cascade = {}
                    ELSE after = {}]_vars

\* C6: every committed FileStorage row, and every row an upload found in the
\* ledger, has reference_count >= 1.
C6_NoZeroCountObservable ==
  /\ \A s \in fileStorage : s.reference_count >= 1
  /\ \A r \in Req : loc[r].existing_storage # NoneStorage =>
                      loc[r].existing_storage.reference_count >= 1

\* a delete of the last reference has just committed: the row is gone
C6_Witness ==
  /\ last.op = "destroy" /\ last.status = 204
  /\ ~createRaced
  /\ \E c \in Contents : del204[c] >= 1 /\ RowsOf(c) = {}

\* C7: when all requests have returned, every File row references a
\* FileStorage row that exists and whose bytes are in the bucket.
C7_PurgeNeverRacesAttach ==
  Quiescent =>
    \A f \in files :
      \E s \in fileStorage :
        /\ s.id = f.storage
        /\ \E o \in s3 : o.path = s.s3_path /\ calculate_file_hash(o.data) = s.file_hash

\* usage(owner) as the specification defines it: the sum of byte_size over
\* the distinct BlobRecords referenced by the owner's FileRecords
Usage(u) ==
  SumSize({s \in fileStorage : \E f \in FilesOf(s) : f.user_id = u})

\* C8: the quota check of an upload answers 429 "Storage Quota Exceeded" iff
\* usage(owner) + size > limit_bytes; at exactly limit_bytes it lets the
\* upload pass.
C8_DeniedIffOverLimit ==
  [][\A r \in Req :
       (pc[r] = "c_quota" /\ pc'[r] # "c_quota") =>
         LET over == Usage(arg[r].user) + Size(arg[r].content) > limit_bytes
         IN /\ (last'.status = 429) <=> over
            /\ over => last'.error = "Storage Quota Exceeded"
            /\ ~over => pc'[r] = "c_commit" \/ last'.status = 500]_vars

\* an upload passed the quota check with usage + size exactly at the limit
C8_Witness ==
  \E r \in Req :
    /\ pc[r] = "c_commit" /\ loc[r].existing_storage = NoneStorage
    /\ Usage(arg[r].user) > 0
    /\ Usage(arg[r].user) + Size(arg[r].content) = limit_bytes

RECURSIVE SumContentSize(_)
SumContentSize(C) == IF C = {} THEN 0
                     ELSE LET c == CHOOSE x \in C : TRUE
                          IN Size(c) + SumContentSize(C \ {c})

\* the contents of which user u has at least one File row
Held(u) ==
  {c \in Contents :
     \E s \in RowsOf(c) : \E f \in FilesOf(s) : f.user_id = u}

\* C9: get_user_storage_usage(owner) is the sum of the sizes of the contents
\* the owner has at least one File row of: a content the owner has several
\* File rows of counts once, File rows of other owners count nothing.
C9_UsageCountsDistinctContents ==
  \A u \in Users : get_user_storage_usage(u) = SumContentSize(Held(u))

\* an owner has two File rows of one content, and another owner has a file
C9_Witness ==
  \E u \in Users, s \in fileStorage :
    /\ Cardinality({f \in FilesOf(s) : f.user_id = u}) >= 2
    /\ get_user_storage_usage(u) = s.size

C11_QuotaNotBypassedByRace ==
  Quiescent =>
    \A u \in Users :
      (\A f \in files : f.user_id = u => ~f.is_duplicate) =>
        get_user_storage_usage(u) <= limit_bytes

\* C12: an upload answered 429 "Storage Quota Exceeded" leaves both tables and
\* the bucket as they were, and its response carries the usage of the owner,
\* limit_bytes and the size of the upload.
C12_QuotaRejectionChangesNothing ==
  [][\A r \in Req, u \in Users, c \in Contents :
       (/\ pc[r] = "c_quota" /\ pc'[r] = "idle"
        /\ arg[r].user = u /\ arg[r].content = c
        /\ last'.status = 429 /\ last'.error = "Storage Quota Exceeded") =>
         /\ fileStorage' = fileStorage /\ files' = files /\ s3' = s3
         /\ last'.current_usage_bytes = Usage(u)
         /\ last'.limit_bytes = limit_mb * 1024 * 1024
         /\ last'.attempted_upload_bytes = Size(c)]_vars

\* an upload of a user who holds 7 MB was refused
C12_Witness ==
  /\ last.op = "create" /\ last.status = 429
  /\ last.error = "Storage Quota Exceeded"
  /\ last.current_usage_bytes > 0
  /\ last.current_usage_bytes + last.attempted_upload_bytes > last.limit_bytes

\* ---- properties of the rate limiter --------------------------------------
\* is_allowed calls of user u answered Allowed so far, whatever the timestamp
AllowedCount(u) ==
  LET RECURSIVE Sum(_)
      Sum(n) == IF n < 0 THEN 0 ELSE allowedAt[u][n] + Sum(n - 1)
  IN Sum(MaxTime)

\* C13: the queue of every user holds at most max_calls entries, at every
\* moment and under every interleaving of the methods of the service.
C13_QueueAtMostMaxCalls ==
  \A u \in Users : Len(user_requests[u]) <= max_calls

\* a call was denied against a queue that holds max_calls entries
C13_Witness ==
  /\ max_calls > 0
  /\ rlLast.op = "is_allowed" /\ ~rlLast.is_allowed
  /\ Len(user_requests[rlLast.user_id]) = max_calls

\* is_allowed calls of user u answered Allowed with a timestamp in a..b
AllowedIn(u, a, b) ==
  LET RECURSIVE Sum(_)
      Sum(n) == IF n < a THEN 0 ELSE allowedAt[u][n] + Sum(n - 1)
  IN Sum(b)

\* C14: for every user and every interval of time shorter than time_window,
\* at most max_calls is_allowed calls whose timestamps fall in the interval
\* are answered Allowed, whatever the interleaving of is_allowed,
\* get_current_request_count and get_rate_limit_info (the history of a user
\* ends at clear_user_requests).
C14_AtMostMaxCallsPerWindow ==
  \A u \in Users : logged[u] =>
    \A a \in 0..MaxTime, b \in 0..MaxTime :
      (a <= b /\ b - a < Window) => AllowedIn(u, a, b) <= max_calls

\* C15: from an empty queue, max_calls immediate is_allowed calls are
\* answered Allowed with an empty message, the next immediate call is Denied
\* with "Call Limit Reached", and a call more than time_window after the
\* admitted ones is Allowed again.  As steps of add_request: a call whose
\* queue holds fewer than max_calls entries, all of this instant, is Allowed;
\* one whose queue holds max_calls entries of this instant is Denied; one
\* whose queue holds only entries older than time_window is Allowed.
C15_AllowedDeniedAllowedAgain ==
  [][\A t \in Thread, u \in Users :
       (/\ tpc[t] = "in" /\ targ[t].op = "is_allowed" /\ targ[t].user_id = u
        /\ rlLast'.op = "is_allowed") =>
         LET q == user_requests[u]
             now == targ[t].current_time
             Immediate == \A i \in 1..Len(q) : q[i].timestamp = now
             Later == \A i \in 1..Len(q) : now - q[i].timestamp > Window
         IN /\ (Immediate /\ Len(q) < max_calls) =>
                 rlLast'.is_allowed /\ rlLast'.message = ""
            /\ (Immediate /\ Len(q) = max_calls) =>
                 ~rlLast'.is_allowed /\ rlLast'.message = "Call Limit Reached"
            /\ (q # <<>> /\ Later) =>
                 rlLast'.is_allowed /\ rlLast'.message = ""]_vars

\* max_calls calls admitted at time 0, one denied, and a call more than
\* time_window later admitted into a queue that holds nothing else
C15_Witness ==
  /\ max_calls = 2 /\ logged["u1"]
  /\ allowedAt["u1"][0] = max_calls /\ deniedCount["u1"] >= 1
  /\ rlLast.op = "is_allowed" /\ rlLast.user_id = "u1"
  /\ rlLast.is_allowed /\ rlLast.message = ""
  /\ rlLast.current_time > Window
  /\ Len(user_requests["u1"]) = 1

\* C16: is_allowed at time now purges from the queue of the user exactly the
\* timestamps older than now - time_window: an entry counts toward the limit
\* if and only if now - timestamp <= time_window, so that an entry exactly
\* time_window old is still live.
C16_PurgesExactlyOlderThanWindow ==
  [][\A t \in Thread, u \in Users :
       (/\ tpc[t] = "in" /\ targ[t].op = "is_allowed" /\ targ[t].user_id = u
        /\ rlLast'.op = "is_allowed") =>
         LET now == targ[t].current_time
             Live(e) == now - e.timestamp <= Window
             live == SelectSeq(user_requests[u], Live)
         IN /\ rlLast'.is_allowed <=> Len(live) < max_calls
            /\ user_requests'[u] = IF rlLast'.is_allowed
                                   THEN Append(live, RequestInfo(now, u))
                                   ELSE live]_vars

\* C17: concurrent is_allowed calls for one user are linearizable: when K
\* calls race against an empty queue within one window, exactly
\* min(K, max_calls) of them are answered Allowed.  Within the first window
\* after the empty queue, at every moment, of the K calls answered so far
\* min(K, max_calls) were Allowed.
C17_RacingCallsAdmitMin ==
  \A u \in Users : (logged[u] /\ clock < Window) =>
    LET K == AllowedCount(u) + deniedCount[u]
    IN AllowedCount(u) = IF K < max_calls THEN K ELSE max_calls

\* max_calls calls were admitted and one was just denied, within the first
\* window, while another call that had entered before the answer waits for
\* the lock
C17_Witness ==
  /\ max_calls = 2 /\ logged["u1"] /\ clock < Window
  /\ AllowedCount("u1") = max_calls /\ deniedCount["u1"] >= 1
  /\ \E t \in Thread : /\ tpc[t] = "want" /\ targ[t].op = "is_allowed"
                       /\ targ[t].user_id = "u1"
  /\ rlLast.op = "is_allowed" /\ ~rlLast.is_allowed

\* C18: operations of the rate limiter on different users do not contend:
\* a thread that holds the critical section for one user never blocks
\* is_allowed, get_current_request_count, get_rate_limit_info or
\* clear_user_requests for another user.  No thread waits for the lock
\* while a thread working for a different user holds it.
C18_NoContentionAcrossUsers ==
  \A t \in Thread, w \in Thread :
    (lock = t /\ tpc[w] = "want") => targ[w].user_id = targ[t].user_id

\* ---- properties of the pipeline's rate limiting --------------------------
\* requests of user u that the wrapper has let through for certain: one
\* upload for every File of u and, when the last answer is that of a delete
\* of u that ran, this delete and the upload of the File it removed
AdmittedAtLeast(u) ==
  Cardinality({f \in files : f.user_id = u})
  + IF last.op = "destroy" /\ last.user = u /\ last.status \notin {0, 429}
    THEN IF last.status = 204 THEN 2 ELSE 1
    ELSE 0

\* C19: the state of the rate limiter is shared by all requests of a user:
\* once max_calls requests of one user have been admitted within
\* time_window, the next request of that user inside the window is answered
\* 429.  The clock stands still over a run, so all requests fall in one
\* window and no user has more than max_calls requests let through.
C19_SharedLimiterRejectsNext ==
  \A u \in Users : clock < Window => AdmittedAtLeast(u) <= max_calls

\* C20: a request rejected by the rate limiter never runs the wrapped
\* operation: no FileStorage row, File row or S3 object is created, changed
\* or deleted and no handler is entered, and the 429 answer carries the
\* request_id and the rate-limit info of the user.
C20_RateLimitedRunsNothing ==
  [][(last'.status = 429 /\ last'.error = "Call Limit Reached") =>
       /\ fileStorage' = fileStorage /\ files' = files /\ s3' = s3
       /\ nextId' = nextId /\ pc' = pc /\ s3Puts' = s3Puts
       /\ last'.request_id # ""
       /\ last'.rate_limit_info.limit = max_calls
       /\ last'.rate_limit_info.window = time_window
       /\ last'.rate_limit_info.remaining_calls = 0]_vars

\* an upload was rejected by the rate limiter, with its request_id
C20_Witness ==
  /\ last.op = "create" /\ last.status = 429
  /\ last.error = "Call Limit Reached"
  /\ last.request_id = "uuid4"
  /\ last.rate_limit_info.window = time_window

\* C21: rate limiting is isolated per user: a step of is_allowed,
\* get_current_request_count, get_rate_limit_info or clear_user_requests for
\* one user leaves the queue of every other user as it was, and is_allowed
\* for a user whose queue is empty is answered Allowed while the queue of
\* another user is full.
C21_UsersAreIsolated ==
  [][\A t \in Thread, a \in Users, b \in Users :
       (tpc[t] = "in" /\ targ[t].user_id = a /\ b # a) =>
         /\ tpc'[t] # "in" => user_requests'[b] = user_requests[b]
         /\ (/\ tpc'[t] = "idle" /\ targ[t].op = "is_allowed"
             /\ max_calls > 0
             /\ user_requests[a] = <<>>
             /\ Len(user_requests[b]) = max_calls) =>
               rlLast'.is_allowed /\ rlLast'.user_id = a]_vars

\* u2 was just admitted into its empty queue while the queue of u1 is full
\* of entries of this instant
C21_Witness ==
  /\ max_calls > 0
  /\ Len(user_requests["u1"]) = max_calls
  /\ \A i \in 1..max_calls : user_requests["u1"][i].timestamp = clock
  /\ rlLast.op = "is_allowed" /\ rlLast.user_id = "u2" /\ rlLast.is_allowed
  /\ rlLast.current_time = clock
  /\ Len(user_requests["u2"]) = 1

\* the smallest timestamp of a non-empty sequence of entries
OldestTimestamp(q) ==
  CHOOSE m \in {q[i].timestamp : i \in 1..Len(q)} :
    \A i \in 1..Len(q) : m <= q[i].timestamp

\* C22: get_rate_limit_info returns limit = max_calls, window = time_window,
\* remaining_calls = max(0, max_calls - number of live entries) and
\* reset_time = timestamp of the oldest live entry + time_window, or 0 when
\* the user has no live entry (reset_time is in seconds, the timestamps in
\* ticks of 1/TicksPerSecond second).
C22_InfoReportsLiveEntries ==
  [][\A t \in Thread, u \in Users :
       (/\ tpc[t] = "in" /\ targ[t].op = "get_rate_limit_info"
        /\ targ[t].user_id = u /\ rlLast'.op = "get_rate_limit_info") =>
         LET now == targ[t].current_time
             Live(e) == now - e.timestamp <= Window
             live == SelectSeq(user_requests[u], Live)
             info == rlLast'.info
         IN /\ info.limit = max_calls
            /\ info.window = time_window
            /\ info.remaining_calls =
                 IF max_calls - Len(live) > 0 THEN max_calls - Len(live) ELSE 0
            /\ info.reset_time * TicksPerSecond =
                 IF live = <<>> THEN 0 ELSE OldestTimestamp(live) + Window]_vars

\* C23: a denial is transient: when an is_allowed call of a user was denied
\* and get_rate_limit_info then reported reset_time r, an is_allowed call of
\* that user at any time >= r, with no admission for the user in between, is
\* answered Allowed (for a limiter that admits anything at all, max_calls > 0).
C23_AllowedFromResetTime ==
  [][\A t \in Thread, u \in Users :
       (/\ tpc[t] = "in" /\ targ[t].op = "is_allowed" /\ targ[t].user_id = u
        /\ rlLast'.op = "is_allowed"
        /\ max_calls > 0
        /\ retry_after[u].reported
        /\ targ[t].current_time >= retry_after[u].reset_time * TicksPerSecond) =>
         rlLast'.is_allowed]_vars

\* ---- properties of failures and ownership ---------------------------------
\* C24: when the S3 upload of a new content fails, the upload is answered
\* 500 as a storage failure, the request is over, and no FileStorage row and
\* no File row is written.
C24_UploadFailureWritesNoRow ==
  [][\A r \in Req :
       (/\ pc[r] = "c_quota" /\ pc'[r] = "idle"
        /\ last'.error = "Failed to upload to S3") =>
         /\ last'.status = 500 /\ last'.op = "create"
         /\ fileStorage' = fileStorage /\ files' = files]_vars

\* an upload failed at S3 while the ledger held a row, and still holds no
\* row for the content of the failed upload
C24_Witness ==
  /\ last.op = "create" /\ last.status = 500
  /\ last.error = "Failed to upload to S3"
  /\ fileStorage # {}
  /\ find_existing_storage(calculate_file_hash(last.content)) = NoneStorage

C26_ForeignDeleteIsNotFound ==
  [][/\ \A r \in Req :
          (pc[r] = "idle" /\ pc'[r] = "d_begin") =>
            loc'[r].instance.user_id = arg'[r].user
     /\ (last'.op = "destroy" /\ last'.status = 404) =>
          /\ last'.error = "File not found"
          /\ last'.request_id = "uuid4"
          /\ fileStorage' = fileStorage /\ files' = files /\ s3' = s3]_vars

\* C27: in every state, for each owner and each FileStorage row referenced
\* by at least one File of that owner, exactly one of those Files has
\* is_duplicate = FALSE.
C27_OneOriginalPerOwner ==
  \A u \in Users, s \in fileStorage :
    LET mine == {f \in files : f.user_id = u /\ f.storage = s.id}
    IN mine # {} => Cardinality({f \in mine : ~f.is_duplicate}) = 1

\* ---- properties of the quota view and the storage stats -------------------
\* C28: get_storage_quota_info reports available_bytes = max(0, limit_bytes -
\* usage) and usage_percentage = min(100, usage / limit_bytes * 100); with
\* limit_bytes = 0 the percentage is 0 and check_storage_limit refuses every
\* positive size.
C28_QuotaViewFormulas ==
  LET lim == quota.limit_mb * 1024 * 1024
      usage == quota.current_usage
      pct == quota.info.usage_percentage
  IN /\ "get_storage_quota_info" \in quota.done =>
          /\ quota.info.current_usage_bytes = usage
          /\ quota.info.limit_bytes = lim
          /\ quota.info.available_bytes = IF lim > usage THEN lim - usage ELSE 0
          /\ lim = 0 => pct.whole = 0 /\ pct.rest = 0
          /\ (lim > 0 /\ usage >= lim) => pct.whole = 100 /\ pct.rest = 0
          /\ (lim > 0 /\ usage < lim) =>
               pct.whole * lim + pct.rest = usage * 100 /\ pct.rest < lim
     /\ ("check_storage_limit" \in quota.done /\ lim = 0
         /\ quota.additional_size > 0) =>
          ~quota.is_allowed /\ quota.message = "Storage Quota Exceeded"

\* a service with limit 0 and usage above it: percentage 0, nothing
\* available, and the upload of one byte refused
C28_Witness ==
  /\ quota.limit_mb = 0 /\ quota.current_usage > 0
  /\ quota.done = {"get_storage_quota_info", "check_storage_limit"}
  /\ quota.info.usage_percentage.whole = 0 /\ quota.info.available_bytes = 0
  /\ quota.additional_size = 1 /\ ~quota.is_allowed

\* the byte_size of a FileRecord: the size of the BlobRecord it references
ByteSize(f) ==
  IF \E s \in fileStorage : s.id = f.storage
  THEN (CHOOSE s \in fileStorage : s.id = f.storage).size
  ELSE 0

RECURSIVE SumByteSize(_)
SumByteSize(F) == IF F = {} THEN 0
                  ELSE LET f == CHOOSE x \in F : TRUE
                       IN ByteSize(f) + SumByteSize(F \ {f})

\* C29: the storage statistics of an owner report total_storage_used equal
\* to usage(owner), original_storage_used equal to the sum of byte_size over
\* all of the owner's FileRecords, and storage_savings equal to their
\* difference, which is never negative.
C29_StorageStatsTotals ==
  [][\A r \in Req :
       /\ (pc[r] = "idle" /\ pc'[r] = "s_original") =>
            loc'[r].total_storage_used = Usage(arg'[r].user)
       /\ (pc[r] = "s_original" /\ pc'[r] = "idle") =>
            /\ last'.status = 200
            /\ last'.original_storage_used =
                 SumByteSize({f \in files : f.user_id = last'.user})
            /\ last'.storage_savings =
                 last'.original_storage_used - last'.total_storage_used
            /\ last'.storage_savings >= 0]_vars

\* C30: on every upload path that hashes the upload stream, computing the
\* fingerprint leaves the stream positioned at its start, so that a full
\* read after hashing returns the bytes that were hashed.
C30_StreamRewoundAfterHash ==
  stream.path # "none" =>
    /\ stream.pos = 0
    /\ read(stream, -1).bytes = stream.hashed
    /\ stream.hashed = stream.data
    /\ stream.file_hash = sha256(stream.data)

\* C31: after a delete removed an owner's last File row that references a
\* FileStorage row, get_user_storage_usage(owner), computed from the rows as
\* they are then, is lower by that row's size, whether or not other owners
\* still reference the row.
C31_UsageDropsBySize ==
  [][\A r \in Req, u \in Users, f \in files :
       (/\ pc[r] = "d_commit" /\ pc'[r] = "idle" /\ last'.status = 204
        /\ arg[r].user = u /\ loc[r].instance = f
        /\ {g \in files : g.user_id = u /\ g.storage = f.storage} = {f})
       => \E n \in {ByteSize(f)} :
            get_user_storage_usage(u)' = get_user_storage_usage(u) - n]_vars

\* a delete answered 204 left its owner without files and with usage 0 while
\* another owner still references the FileStorage row of the deleted content
C31_Witness ==
  /\ ~createRaced
  /\ last.op = "destroy" /\ last.status = 204
  /\ get_user_storage_usage(last.user) = 0
  /\ \E s \in fileStorage, f \in files :
       /\ f.storage = s.id /\ f.user_id # last.user
       /\ del204[ContentOf(s.file_hash)] >= 1
       /\ \A t \in fileStorage : t = s

\* the entries of a queue that are live at time now: younger than the window
Live(q, now) == SelectSeq(q, LAMBDA e : now - e.timestamp < Window)

\* C32: an is_allowed call that is denied appends nothing to the user's
\* queue: the queue, and with it the live entries, is the same before and
\* after the call.
C32_DeniedLeavesQueue ==
  [][\A t \in Thread :
       (/\ tpc[t] = "in" /\ targ[t].op = "is_allowed" /\ tpc'[t] = "idle"
        /\ ~rlLast'.is_allowed)
       => /\ user_requests' = user_requests
          /\ \A u \in Users :
               Live(user_requests'[u], clock) = Live(user_requests[u], clock)]_vars

\* a call was denied with the queue full of live entries
C32_Witness ==
  /\ rlLast.op = "is_allowed" /\ ~rlLast.is_allowed
  /\ max_calls > 0
  /\ Len(Live(user_requests[rlLast.user_id], clock)) = max_calls

\* C33: no is_allowed call is denied while fewer than max_calls entries of
\* the user's queue are live at the moment the decision is made, also when
\* the call read the clock before it entered the critical section.
C33_DeniedOnlyAtLimit ==
  [][\A t \in Thread :
       (/\ tpc[t] = "in" /\ targ[t].op = "is_allowed" /\ tpc'[t] = "idle"
        /\ ~rlLast'.is_allowed)
       => Len(Live(user_requests[targ[t].user_id], clock)) >= max_calls]_vars

\* C34: in every reachable state each user's queue is ordered by
\* non-decreasing timestamp.
C34_QueueOrderedByTimestamp ==
  \A u \in Users : \A i, j \in 1..Len(user_requests[u]) :
    i < j => user_requests[u][i].timestamp <= user_requests[u][j].timestamp

\* C35: what get_rate_limit_info returns is a snapshot of one queue state,
\* also while is_allowed or clear_user_requests run for the same user:
\* remaining_calls equals the limit iff reset_time is 0, and remaining_calls
\* and reset_time are both computed from the queue the call returns from.
C35_InfoIsOneSnapshot ==
  [][\A t \in Thread :
       (/\ tpc[t] = "in" /\ targ[t].op = "get_rate_limit_info"
        /\ tpc'[t] = "idle")
       => LET q == user_requests[targ[t].user_id]
              info == rlLast'.info
          IN /\ (info.remaining_calls = info.limit) <=> (info.reset_time = 0)
             /\ info.remaining_calls =
                  (IF info.limit > Len(q) THEN info.limit - Len(q) ELSE 0)
             /\ (info.reset_time = 0) <=> (q = <<>>)]_vars

\* C36: get_current_request_count removes the user's expired entries and
\* returns the number of entries left; clear_user_requests empties the queue
\* (after which the count is 0), and an is_allowed call is denied only when
\* max_calls entries were admitted since the queue was emptied.
C36_CountPurgesClearEmpties ==
  [][\A t \in Thread :
       (tpc[t] = "in" /\ tpc'[t] = "idle") =>
         LET u == targ[t].user_id
             now == targ[t].current_time
         IN /\ targ[t].op = "get_current_request_count" =>
                 /\ user_requests'[u] = Live(user_requests[u], now)
                 /\ rlLast'.count = Len(user_requests'[u])
            /\ targ[t].op = "clear_user_requests" =>
                 /\ user_requests'[u] = <<>>
                 /\ get_current_request_count(user_requests'[u], clock)[1] = 0
            /\ (targ[t].op = "is_allowed" /\ ~rlLast'.is_allowed) =>
                 Len(user_requests[u]) >= max_calls]_vars

\* C37: on a delete that purges a FileStorage row the object is removed from
\* the bucket only after the deletion of the File row and the FileStorage
\* row has committed, and a delete whose transaction fails or rolls back
\* leaves the object in the bucket.
C37_BytesRemovedAfterCommit ==
  [][/\ \A o \in s3 \ s3' : \A s \in fileStorage' : s.s3_path # o.path
     /\ \A r \in Req :
          (/\ pc[r] = "d_commit" /\ pc'[r] = "idle" /\ last'.status = 500)
          => \E o \in s3' : o.path = loc[r].storage.s3_path]_vars

\* C38: the DELETE of the File row and the decrement or purge of its
\* FileStorage row are one atomic unit: a delete request that ends, by its
\* answer or by the death of its process, has persisted both or neither, and
\* after it no File row references a FileStorage row that is not there.
C38_DeleteAndDecrementAtomic ==
  [][\A r \in Req :
       (pc[r] \in {"d_begin", "d_purge", "d_commit"} /\ pc'[r] = "idle") =>
         LET storage == loc[r].storage
             instance == loc[r].instance
         IN /\ \/ UNCHANGED dbVars
               \/ /\ instance \notin files'
                  /\ IF destroy_purges(storage)
                     THEN \A s \in fileStorage' : s.id # storage.id
                     ELSE \E s \in fileStorage' :
                            /\ s.id = storage.id
                            /\ s.reference_count = storage.reference_count
            /\ last'.error = "crashed" => UNCHANGED dbVars
            /\ \A f \in files' : \E s \in fileStorage' : s.id = f.storage]_vars

\* the process of a delete died after its S3 delete: the File row and its
\* FileStorage row, with the count it had, are still there
C38_Witness ==
  /\ last.op = "destroy" /\ last.error = "crashed"
  /\ \E f \in files, s \in fileStorage :
       /\ f.user_id = last.user /\ f.storage = s.id
       /\ s.reference_count = Cardinality(FilesOf(s))
       /\ \A o \in s3 : o.path # s.s3_path

\* C39: any two FileStorage rows that exist at the same time have different
\* s3_path values, and the object at a row's s3_path, when there is one,
\* holds the bytes of that row's content: an upload never overwrites the
\* bytes of another content.
C39_DistinctBackingLocations ==
  /\ \A s, t \in fileStorage : s # t => s.s3_path # t.s3_path
  /\ \A s \in fileStorage, o \in s3 :
       o.path = s.s3_path => calculate_file_hash(o.data) = s.file_hash

\* C40: a request whose UserId header is missing or blank is answered 400
\* "UserId header is required" before the rate limiter is asked: the answer
\* carries no request_id, no queue of the rate limiter changes, and no
\* FileStorage row, File row or S3 object is created, changed or deleted.
C40_BlankUserIdRejected ==
  [][(last'.op # "none" /\ last'.user = "") =>
       /\ last'.status = 400
       /\ last'.error = "UserId header is required"
       /\ last'.request_id = "" /\ last'.rate_limit_info = NoInfo
       /\ UNCHANGED <<dbVars, s3, user_requests, pc>>]_vars

\* a request without a user was answered 400 while files were stored
C40_Witness ==
  /\ last.user = "" /\ last.op = "destroy" /\ last.status = 400
  /\ files # {} /\ fileStorage # {} /\ s3 # {}

\* ---- sanity -------------------------------------------------------------
LedgerWellFormed ==
  /\ \A f \in files : \E s \in fileStorage : s.id = f.storage
  /\ \A s, t \in fileStorage : s.file_hash = t.file_hash => s = t
  /\ \A s \in fileStorage : s.size = Size(ContentOf(s.file_hash))

====
